---- MODULE Spec2Model ----
(***************************************************************************)
(* Model of hsf/segment.py (neurospin/HSF): preprocessing of a scan into a *)
(* torchio Subject, discovery of the ONNX sessions, and segment(): the     *)
(* test-time-augmentation x model loop, predict() on each pair (session    *)
(* run, to_ca_mode, label attachment, inverse transform), the stack of the *)
(* per-run volumes and the majority vote.                                  *)
(*                                                                         *)
(* A volume is represented by its spatial shape and by the class scores of *)
(* one representative voxel: argmax(dim=1) and mode(dim=0) act on every    *)
(* voxel independently, and to_ca_mode acts on the channel axis only.      *)
(***************************************************************************)
EXTENDS Integers, Sequences, FiniteSets, TLC

VARIABLES
    mri_shape,            \* spatial shape (X, Y, Z) of the raw scan
    models,               \* the *.onnx files found under models_path
    segmentation_cfg,     \* [test_time_augmentation, test_time_num_aug]
    augmentation_cfg,     \* [flip_axes, affine_probability, elastic_probability]
    ca_mode,              \* the configured ca_mode string
    logit_pool,           \* the 6-channel voxel outputs a session may produce
    ready,                \* which of "subject", "sessions" the caller has built
    pc,                   \* position in segment() / predict()
    subject,              \* the preprocessed Subject object passed to segment
    copy,                 \* the Subject object returned by the last augmentation
    augmented,            \* what the name `augmented` refers to: "subject" or "copy"
    sessions,             \* the list returned by get_inference_sessions
    n_aug,                \* segment's n_aug
    i,                    \* index of the range(n_aug) loop
    k,                    \* position in `sessions` of the list comprehension
    raw,                  \* predict: output of session.run (representative voxel)
    logits,               \* predict: output of to_ca_mode
    sessions_predictions, \* segment: predictions of the current iteration
    results,              \* segment: the accumulated list
    soft_predictions,     \* returned stack
    hard_prediction,      \* returned vote (class of the representative voxel)
    err,                  \* exception that left segment, "none" if none
    run_calls,            \* number of session.run calls so far
    aug_calls             \* number of augmentation_pipeline calls so far

vars == <<mri_shape, models, segmentation_cfg, augmentation_cfg, ca_mode,
          logit_pool, ready, pc, subject, copy, augmented, sessions, n_aug, i,
          k, raw, logits, sessions_predictions, results, soft_predictions,
          hard_prediction, err, run_calls, aug_calls>>

cfgvars == <<mri_shape, models, segmentation_cfg, augmentation_cfg, ca_mode,
             logit_pool>>

----------------------------------------------------------------------------
(* Bounds *)

MaxAug == 3        \* largest test_time_num_aug explored
MaxSessions == 2   \* largest number of *.onnx files explored
MaxDim == 9        \* largest non-multiple-of-8 extent of the raw scans
MaxLogit == 2      \* to_ca_mode inputs take values 0..MaxLogit
MaxVoteAug == 2    \* largest test_time_num_aug explored for the vote

(* Program constants *)

ShapeMultiple == 8 \* tio.EnsureShapeMultiple(8)
NumChannels == 6   \* 0: bg, 1: dg, 2: ca1, 3: ca2, 4: ca3, 5: sub

----------------------------------------------------------------------------
(* Generic helpers *)

RECURSIVE Reverse(_)
Reverse(s) == IF s = <<>> THEN <<>> ELSE Reverse(Tail(s)) \o <<Head(s)>>

CeilDiv(a, b) == (a + b - 1) \div b

RECURSIVE Insert(_, _)
Insert(x, s) ==
    IF s = <<>> THEN <<x>>
    ELSE IF x <= Head(s) THEN <<x>> \o s
    ELSE <<Head(s)>> \o Insert(x, Tail(s))

RECURSIVE SortAscending(_)
SortAscending(s) ==
    IF s = <<>> THEN <<>> ELSE Insert(Head(s), SortAscending(Tail(s)))

RECURSIVE SetToSortedSeq(_)
SetToSortedSeq(S) ==
    IF S = {} THEN <<>>
    ELSE LET m == CHOOSE x \in S : \A y \in S : x <= y
         IN <<m>> \o SetToSortedSeq(S \ {m})

----------------------------------------------------------------------------
(* Transform history of a Subject.  A step is [name, arg]; arg holds the   *)
(* step's reproducing arguments (padding amounts, flipped axes).           *)

Step(name, a) == [name |-> name, arg |-> a]

ZNormalization == Step("ZNormalization", <<>>)

\* CropOrPad splits the missing voxels of an axis into (ceil, floor) halves.
PadAmounts(shape) ==
    [d \in 1..3 |->
        LET target == CeilDiv(shape[d], ShapeMultiple) * ShapeMultiple
            diff   == target - shape[d]
        IN <<CeilDiv(diff, 2), diff \div 2>>]

PadArg(shape) ==
    LET p == PadAmounts(shape)
    IN <<p[1][1], p[1][2], p[2][1], p[2][2], p[3][1], p[3][2]>>

PaddedShape(shape) ==
    [d \in 1..3 |-> CeilDiv(shape[d], ShapeMultiple) * ShapeMultiple]

NeedsPad(shape) == PaddedShape(shape) # shape

\* mri_to_subject: Compose([ZNormalization(), EnsureShapeMultiple(8)]).
\* ZNormalization is always recorded; EnsureShapeMultiple records a Pad step
\* only when some axis is not already a multiple of 8.
mri_to_subject(shape) ==
    [images  |-> {"mri"},
     history |-> <<ZNormalization>> \o
                 (IF NeedsPad(shape) THEN <<Step("Pad", PadArg(shape))>>
                  ELSE <<>>),
     shape   |-> PaddedShape(shape)]

\* get_inference_sessions: one session per *.onnx file, none if none found.
get_inference_sessions(found) == found

NoSubject == [images |-> {}, history |-> <<>>, shape |-> <<0, 0, 0>>]

----------------------------------------------------------------------------
(* Augmentation pipeline: Compose((RandomFlip, OneOf{Affine, Elastic})).   *)

\* The resampling transforms OneOf can draw: those with positive probability.
OneOfChoices(cfg) ==
    (IF cfg.affine_probability > 0 THEN {"Affine"} ELSE {}) \cup
    (IF cfg.elastic_probability > 0 THEN {"ElasticDeformation"} ELSE {})

\* The step sequences one call of the pipeline can append: RandomFlip draws a
\* subset of its axes and records a Flip only when the subset is not empty,
\* then OneOf applies exactly one of its transforms.
AugmentationSteps(cfg) ==
    { (IF axes = {} THEN <<>> ELSE <<Step("Flip", SetToSortedSeq(axes))>>)
        \o <<Step(r, <<>>)>> :
      axes \in SUBSET cfg.flip_axes, r \in OneOfChoices(cfg) }

\* A transform is applied to a deep copy of its input, which keeps the images
\* and the history of the input and appends the applied steps.
ApplyAugmentation(src, steps) ==
    [images  |-> src.images,
     history |-> src.history \o steps,
     shape   |-> src.shape]

----------------------------------------------------------------------------
(* Inverse mapping: Subject.apply_inverse_transform(warn=True).            *)

Invertible(step) == step.name \in {"Pad", "Flip", "Affine", "ElasticDeformation"}

InverseOf(step) ==
    CASE step.name = "Pad"  -> Step("Crop", step.arg)
      [] step.name = "Flip" -> Step("Flip", step.arg)
      [] step.name = "Affine" -> Step("InverseAffine", step.arg)
      [] OTHER              -> Step("InverseElasticDeformation", step.arg)

\* Compose.inverse: the inverses of the invertible steps, reversed; the
\* others (ZNormalization) are skipped with a warning.
InverseTransform(history) ==
    Reverse([n \in 1..Len(SelectSeq(history, Invertible)) |->
                InverseOf(SelectSeq(history, Invertible)[n])])

ApplyStepToShape(shape, step) ==
    IF step.name = "Crop"
    THEN <<shape[1] - step.arg[1] - step.arg[2],
           shape[2] - step.arg[3] - step.arg[4],
           shape[3] - step.arg[5] - step.arg[6]>>
    ELSE shape

RECURSIVE ApplyStepsToShape(_, _)
ApplyStepsToShape(shape, steps) ==
    IF steps = <<>> THEN shape
    ELSE ApplyStepsToShape(ApplyStepToShape(shape, Head(steps)), Tail(steps))

----------------------------------------------------------------------------
(* to_ca_mode.  Channel c of the code is element c + 1 here.               *)

ValidCaModes == {"1/2/3", "1/23", "123"}

Returned(v) == [raised |-> FALSE, value |-> v]
Raised == [raised |-> TRUE, value |-> <<>>]

\* Variant: the "1/23" and "123" slices start one channel too early.
to_ca_mode_shifted(l, mode) ==
    IF mode = "1/2/3" THEN Returned(l)
    ELSE IF mode = "1/23"
    THEN Returned(SubSeq(l, 1, 2) \o <<l[3] + l[4]>> \o SubSeq(l, 5, Len(l)))
    ELSE IF mode = "123"
    THEN Returned(SubSeq(l, 1, 1) \o <<(l[2] + l[3]) + l[4]>>
                  \o SubSeq(l, 5, Len(l)))
    ELSE Raised

\* Variant: the default mode falls into the "1/23" branch.
to_ca_mode_merging(l, mode) ==
    IF mode = "1/2/3" \/ mode = "1/23"
    THEN Returned(SubSeq(l, 1, 3) \o <<l[4] + l[5]>> \o SubSeq(l, 6, Len(l)))
    ELSE IF mode = "123"
    THEN Returned(SubSeq(l, 1, 2) \o <<(l[3] + l[4]) + l[5]>>
                  \o SubSeq(l, 6, Len(l)))
    ELSE Raised

to_ca_mode(l, mode) ==
    IF mode = "1/2/3" THEN Returned(l)
    ELSE IF mode = "1/23"
    THEN Returned(SubSeq(l, 1, 3) \o <<l[4] + l[5]>> \o SubSeq(l, 6, Len(l)))
    ELSE IF mode = "123"
    THEN Returned(SubSeq(l, 1, 2) \o <<(l[3] + l[4]) + l[5]>>
                  \o SubSeq(l, 6, Len(l)))
    ELSE Raised

----------------------------------------------------------------------------
(* argmax(dim=1) and mode(dim=0) at one voxel.                             *)

MaxOf(s) == CHOOSE m \in {s[n] : n \in 1..Len(s)} : \A n \in 1..Len(s) : s[n] <= m

\* torch.argmax: index (from 0) of the first maximal value.
ArgMax(s) ==
    LET mx == MaxOf(s)
    IN (CHOOSE n \in 1..Len(s) :
           /\ s[n] = mx
           /\ \A m \in 1..(n - 1) : s[m] < mx) - 1

\* torch.mode on CPU: sort the values, scan the runs of equal values and keep
\* a run only when it is strictly longer than the best so far.
RECURSIVE ModeScan(_, _, _, _)
ModeScan(sorted, temp_freq, best, max_freq) ==
    IF sorted = <<>> THEN best
    ELSE LET freq == temp_freq + 1
             last == Len(sorted) = 1 \/ sorted[1] # sorted[2]
         IN IF last
            THEN IF freq > max_freq
                 THEN ModeScan(Tail(sorted), 0, Head(sorted), freq)
                 ELSE ModeScan(Tail(sorted), 0, best, max_freq)
            ELSE ModeScan(Tail(sorted), freq, best, max_freq)

\* Variant: a run of equal values replaces the best one when it is as long.
RECURSIVE ModeScanLast(_, _, _, _)
ModeScanLast(sorted, temp_freq, best, max_freq) ==
    IF sorted = <<>> THEN best
    ELSE LET freq == temp_freq + 1
             last == Len(sorted) = 1 \/ sorted[1] # sorted[2]
         IN IF last
            THEN IF freq >= max_freq
                 THEN ModeScanLast(Tail(sorted), 0, Head(sorted), freq)
                 ELSE ModeScanLast(Tail(sorted), 0, best, max_freq)
            ELSE ModeScanLast(Tail(sorted), freq, best, max_freq)

ModeLast(values) == ModeScanLast(SortAscending(values), 0, -1, 0)

Mode(values) == ModeScan(SortAscending(values), 0, -1, 0)

\* soft_predictions.argmax(dim=1).long().mode(dim=0).values
HardPrediction(stack) ==
    Mode([n \in 1..Len(stack) |-> ArgMax(stack[n].data)])

----------------------------------------------------------------------------
(* segment: choices made by single lines of the code.                      *)

\* lines 170-174: the number of iterations of the loop.
NAug(cfg) ==
    IF cfg.test_time_augmentation THEN cfg.test_time_num_aug ELSE 1

\* Variant: every iteration is augmented.
UseAugmentationAlways(idx) == idx >= 0

\* line 181: `augmentation_pipeline(subject) if i > 0 else subject`.
UseAugmentation(idx) == idx > 0

\* Variant: the pipeline is applied to the subject of the previous iteration.
AugmentPrevious(base, previous) == previous

\* line 181: the object handed to the augmentation pipeline is `subject`.
AugmentSource(base, previous) == base

\* Variant: the predictions of an iteration are put in front of the list.
ExtendFront(list, items) == items \o list

\* line 187: results.extend(sessions_predictions).
Extend(list, items) == list \o items

\* Variant: predict returns the label of `subject`, still in processed space.
UnmappedShape(processed_shape, history) == processed_shape

\* lines 147-149: the tensor predict returns is the label of `back`, the
\* subject produced by the inverse transform, not the label of `subject`.
MappedShape(processed_shape, history) ==
    ApplyStepsToShape(processed_shape, InverseTransform(history))

\* line 144: subject.add_image(lm_temp, 'label') changes the object in place.
AddImage(obj, name) == [obj EXCEPT !.images = @ \cup {name}]

Current == IF augmented = "subject" THEN subject ELSE copy

----------------------------------------------------------------------------
(* Inputs *)

RawShapes == {<<8, 8, 8>>, <<MaxDim, 8, 16>>, <<7, MaxDim, MaxDim>>}

ModelLists == {[n \in 1..m |-> n] : m \in 0..MaxSessions}

AugmentationCfgs ==
    {c \in [flip_axes : {{}, {0}},
            affine_probability : {0, 1},
            elastic_probability : {0, 1}] :
        c.affine_probability + c.elastic_probability > 0}

CaModes == ValidCaModes \cup {"12/3"}

AllLogits == [1..NumChannels -> 0..MaxLogit]

\* Voxel outputs whose arg-max classes differ from each other and from one
\* ca_mode to the next: classes (1, 1, 1), (4, 3, 2) and (1, 3, 2) in the modes
\* "1/2/3", "1/23", "123"; the second has two maximal channels.
VotePool == {<<0, 5, 0, 0, 0, 0>>, <<0, 0, 0, 0, 5, 5>>, <<0, 3, 0, 2, 2, 0>>}

InitProgram ==
    /\ ready = {}
    /\ pc = "main"
    /\ subject = NoSubject
    /\ copy = NoSubject
    /\ augmented = "subject"
    /\ sessions = <<>>
    /\ n_aug = 0
    /\ i = 0
    /\ k = 0
    /\ raw = <<>>
    /\ logits = <<>>
    /\ sessions_predictions = <<>>
    /\ results = <<>>
    /\ soft_predictions = <<>>
    /\ hard_prediction = -1
    /\ err = "none"
    /\ run_calls = 0
    /\ aug_calls = 0

Init ==
    /\ mri_shape \in RawShapes
    /\ models \in ModelLists
    /\ segmentation_cfg \in [test_time_augmentation : BOOLEAN,
                             test_time_num_aug : 0..MaxAug]
    /\ augmentation_cfg \in AugmentationCfgs
    /\ ca_mode \in CaModes
    /\ logit_pool = {<<0, 5, 0, 0, 0, 0>>}
    /\ InitProgram

----------------------------------------------------------------------------
(* Actions *)

MriToSubject ==
    /\ pc = "main"
    /\ "subject" \notin ready
    /\ subject' = mri_to_subject(mri_shape)
    /\ ready' = ready \cup {"subject"}
    /\ UNCHANGED <<cfgvars, pc, copy, augmented, sessions, n_aug, i, k, raw,
                   logits, sessions_predictions, results, soft_predictions,
                   hard_prediction, err, run_calls, aug_calls>>

GetInferenceSessions ==
    /\ pc = "main"
    /\ "sessions" \notin ready
    /\ sessions' = get_inference_sessions(models)
    /\ ready' = ready \cup {"sessions"}
    /\ UNCHANGED <<cfgvars, pc, subject, copy, augmented, n_aug, i, k, raw,
                   logits, sessions_predictions, results, soft_predictions,
                   hard_prediction, err, run_calls, aug_calls>>

\* segment, lines 170-176.
SegmentBegin ==
    /\ pc = "main"
    /\ ready = {"subject", "sessions"}
    /\ n_aug' = NAug(segmentation_cfg)
    /\ results' = <<>>
    /\ i' = 0
    /\ pc' = "loop"
    /\ UNCHANGED <<cfgvars, ready, subject, copy, augmented, sessions, k, raw,
                   logits, sessions_predictions, soft_predictions,
                   hard_prediction, err, run_calls, aug_calls>>

\* line 181, else branch: `augmented` is the subject itself.
IdentityRun ==
    /\ pc = "loop"
    /\ i < n_aug
    /\ ~UseAugmentation(i)
    /\ augmented' = "subject"
    /\ sessions_predictions' = <<>>
    /\ k' = 1
    /\ pc' = "predict"
    /\ UNCHANGED <<cfgvars, ready, subject, copy, sessions, n_aug, i, raw,
                   logits, results, soft_predictions, hard_prediction, err,
                   run_calls, aug_calls>>

\* line 181, if branch: `augmented` is a new, augmented copy.  The name
\* augmentation_pipeline is bound only when test-time augmentation is on.
AugmentedRun ==
    /\ pc = "loop"
    /\ i < n_aug
    /\ UseAugmentation(i)
    /\ IF segmentation_cfg.test_time_augmentation
       THEN /\ \E steps \in AugmentationSteps(augmentation_cfg) :
                 copy' = ApplyAugmentation(AugmentSource(subject, Current),
                                           steps)
            /\ augmented' = "copy"
            /\ aug_calls' = aug_calls + 1
            /\ sessions_predictions' = <<>>
            /\ k' = 1
            /\ pc' = "predict"
            /\ err' = err
       ELSE /\ pc' = "error"
            /\ err' = "UnboundLocalError"
            /\ UNCHANGED <<copy, augmented, aug_calls, sessions_predictions,
                           k>>
    /\ UNCHANGED <<cfgvars, ready, subject, sessions, n_aug, i, raw, logits,
                   results, soft_predictions, hard_prediction, run_calls>>

\* predict, line 139.
SessionRun ==
    /\ pc = "predict"
    /\ k <= Len(sessions)
    /\ \E out \in logit_pool : raw' = out
    /\ run_calls' = run_calls + 1
    /\ pc' = "to_ca_mode"
    /\ UNCHANGED <<cfgvars, ready, subject, copy, augmented, sessions, n_aug,
                   i, k, logits, sessions_predictions, results,
                   soft_predictions, hard_prediction, err, aug_calls>>

\* predict, line 140; the ValueError leaves predict and segment.
ToCaMode ==
    /\ pc = "to_ca_mode"
    /\ LET r == to_ca_mode(raw, ca_mode)
       IN IF r.raised
          THEN /\ pc' = "error"
               /\ err' = "ValueError"
               /\ logits' = logits
          ELSE /\ pc' = "invert"
               /\ err' = err
               /\ logits' = r.value
    /\ UNCHANGED <<cfgvars, ready, subject, copy, augmented, sessions, n_aug,
                   i, k, raw, sessions_predictions, results, soft_predictions,
                   hard_prediction, run_calls, aug_calls>>

\* predict, lines 142-149, and the append of the list comprehension.
InverseMap ==
    /\ pc = "invert"
    /\ IF augmented = "subject"
       THEN subject' = AddImage(subject, "label") /\ copy' = copy
       ELSE copy' = AddImage(copy, "label") /\ subject' = subject
    /\ sessions_predictions' =
           Append(sessions_predictions,
                  [aug     |-> i,
                   session |-> sessions[k],
                   data    |-> logits,
                   history |-> Current.history,
                   inverse |-> InverseTransform(Current.history),
                   shape   |-> MappedShape(Current.shape, Current.history)])
    /\ k' = k + 1
    /\ pc' = "predict"
    /\ UNCHANGED <<cfgvars, ready, augmented, sessions, n_aug, i, raw, logits,
                   results, soft_predictions, hard_prediction, err, run_calls,
                   aug_calls>>

\* line 187, after the list comprehension has visited every session.
ExtendResults ==
    /\ pc = "predict"
    /\ k > Len(sessions)
    /\ results' = Extend(results, sessions_predictions)
    /\ i' = i + 1
    /\ pc' = "loop"
    /\ UNCHANGED <<cfgvars, ready, subject, copy, augmented, sessions, n_aug,
                   k, raw, logits, sessions_predictions, soft_predictions,
                   hard_prediction, err, run_calls, aug_calls>>

\* lines 189-192.  torch.stack raises on an empty list and on tensors of
\* different sizes.
StackAndVote ==
    /\ pc = "loop"
    /\ i >= n_aug
    /\ IF \/ results = <<>>
          \/ \E a, b \in 1..Len(results) :
                \/ results[a].shape # results[b].shape
                \/ Len(results[a].data) # Len(results[b].data)
       THEN /\ pc' = "error"
            /\ err' = "RuntimeError"
            /\ UNCHANGED <<soft_predictions, hard_prediction>>
       ELSE /\ soft_predictions' = results
            /\ hard_prediction' = HardPrediction(results)
            /\ pc' = "done"
            /\ err' = err
    /\ UNCHANGED <<cfgvars, ready, subject, copy, augmented, sessions, n_aug,
                   i, k, raw, logits, sessions_predictions, results,
                   run_calls, aug_calls>>

Next ==
    \/ MriToSubject
    \/ GetInferenceSessions
    \/ SegmentBegin
    \/ IdentityRun
    \/ AugmentedRun
    \/ SessionRun
    \/ ToCaMode
    \/ InverseMap
    \/ ExtendResults
    \/ StackAndVote

Spec == Init /\ [][Next]_vars

\* The same program, on a scan that needs no padding and with an augmentation
\* that draws nothing but an affine, over every combination of voxel outputs.
InitVote ==
    /\ mri_shape = <<8, 8, 8>>
    /\ models \in ModelLists
    /\ segmentation_cfg \in [test_time_augmentation : BOOLEAN,
                             test_time_num_aug : 0..MaxVoteAug]
    /\ augmentation_cfg = [flip_axes |-> {}, affine_probability |-> 1,
                           elastic_probability |-> 0]
    /\ ca_mode \in CaModes
    /\ logit_pool = VotePool
    /\ InitProgram

SpecVote == InitVote /\ [][Next]_vars

----------------------------------------------------------------------------
(* to_ca_mode on its own, over every 6-channel input with small values.    *)

InitRemap ==
    /\ mri_shape = <<8, 8, 8>>
    /\ models = <<>>
    /\ segmentation_cfg = [test_time_augmentation |-> FALSE,
                           test_time_num_aug |-> 0]
    /\ augmentation_cfg = [flip_axes |-> {}, affine_probability |-> 1,
                           elastic_probability |-> 0]
    /\ ca_mode \in CaModes
    /\ logit_pool = AllLogits
    /\ InitProgram

RemapInput ==
    /\ pc = "main"
    /\ ready = {}
    /\ \E l \in logit_pool : raw' = l
    /\ pc' = "remap_call"
    /\ UNCHANGED <<cfgvars, ready, subject, copy, augmented, sessions, n_aug,
                   i, k, logits, sessions_predictions, results,
                   soft_predictions, hard_prediction, err, run_calls,
                   aug_calls>>

RemapCall ==
    /\ pc = "remap_call"
    /\ LET r == to_ca_mode(raw, ca_mode)
       IN IF r.raised
          THEN /\ pc' = "remap_raised"
               /\ err' = "ValueError"
               /\ logits' = logits
          ELSE /\ pc' = "remap_returned"
               /\ err' = err
               /\ logits' = r.value
    /\ UNCHANGED <<cfgvars, ready, subject, copy, augmented, sessions, n_aug,
                   i, k, raw, sessions_predictions, results, soft_predictions,
                   hard_prediction, run_calls, aug_calls>>

NextRemap == RemapInput \/ RemapCall

SpecRemap == InitRemap /\ [][NextRemap]_vars

----------------------------------------------------------------------------
(* Properties *)

Entries == results \o sessions_predictions \o soft_predictions

BaseHistory ==
    <<ZNormalization>> \o
    (IF \E d \in 1..3 : mri_shape[d] % ShapeMultiple # 0
     THEN <<Step("Pad", PadArg(mri_shape))>> ELSE <<>>)

ExpectedNAug ==
    IF segmentation_cfg.test_time_augmentation
    THEN segmentation_cfg.test_time_num_aug ELSE 1

\* The arg-max class of every run of the returned stack.
Votes == [n \in 1..Len(soft_predictions) |-> ArgMax(soft_predictions[n].data)]

\* C1: the hard prediction is a class that most runs voted for (by their
\* arg-max), and among the classes with as many votes it is the lowest.
C1_MajorityVote ==
    pc = "done" =>
        LET votes == Votes
            count == [c \in 0..(NumChannels - 1) |->
                         Cardinality({n \in 1..Len(votes) : votes[n] = c})]
        IN /\ hard_prediction \in 0..(NumChannels - 1)
           /\ count[hard_prediction] >= 1
           /\ \A c \in 0..(NumChannels - 1) :
                 /\ count[c] <= count[hard_prediction]
                 /\ count[c] = count[hard_prediction] => hard_prediction <= c

C1_Witness ==
    /\ pc = "done"
    /\ Len(soft_predictions) = 2
    /\ Votes = <<2, 1>>
    /\ hard_prediction = 1

\* C2: when segment returns, the stack holds n_aug x |sessions| volumes,
\* augmentation-major, the sessions in pool order within an augmentation.
C2_StackLayout ==
    pc = "done" =>
        /\ Len(soft_predictions) = ExpectedNAug * Len(models)
        /\ \A n \in 1..Len(soft_predictions) :
              /\ soft_predictions[n].aug = (n - 1) \div Len(models)
              /\ soft_predictions[n].session
                    = models[((n - 1) % Len(models)) + 1]

C2_Witness ==
    /\ pc = "done"
    /\ segmentation_cfg.test_time_augmentation
    /\ segmentation_cfg.test_time_num_aug >= 2
    /\ Len(models) = 2
    /\ Len(soft_predictions) = 2 * segmentation_cfg.test_time_num_aug

\* An augmentation appends an optional Flip and then exactly one of Affine
\* and ElasticDeformation.
IsAugmentation(steps) ==
    /\ Len(steps) \in {1, 2}
    /\ steps[Len(steps)].name \in {"Affine", "ElasticDeformation"}
    /\ Len(steps) = 2 => steps[1].name = "Flip"

IsAugmentedHistory(h) ==
    /\ Len(h) > Len(BaseHistory)
    /\ SubSeq(h, 1, Len(BaseHistory)) = BaseHistory
    /\ IsAugmentation(SubSeq(h, Len(BaseHistory) + 1, Len(h)))

\* C3: the runs of iteration 0 are made on the preprocessed subject, which
\* the augmentation pipeline never saw; the runs of every later iteration are
\* made on an output of the augmentation pipeline; a returned stack starts
\* with the identity run, and the pipeline was called n_aug - 1 times.
C3_IdentityFirst ==
    /\ \A n \in 1..Len(Entries) :
          IF Entries[n].aug = 0
          THEN Entries[n].history = BaseHistory
          ELSE IsAugmentedHistory(Entries[n].history)
    /\ pc = "done" =>
          /\ soft_predictions[1].aug = 0
          /\ aug_calls = ExpectedNAug - 1

C3_Witness ==
    /\ pc = "done"
    /\ segmentation_cfg.test_time_augmentation
    /\ Len(soft_predictions) >= 2
    /\ soft_predictions[1].history = BaseHistory
    /\ soft_predictions[Len(soft_predictions)].aug > 0
    /\ soft_predictions[Len(soft_predictions)].history # BaseHistory

\* C4 (as claimed): with no model found, processing never returns a result,
\* and neither an augmentation nor a prediction is computed.
C4_FailFast ==
    ("sessions" \in ready /\ models = <<>>) =>
        /\ pc # "done"
        /\ aug_calls = 0
        /\ run_calls = 0

\* C5 (as claimed): with an unknown ca_mode no session is run and no
\* prediction is returned.
C5_ErrorBeforeInference ==
    ca_mode \notin {"1/2/3", "1/23", "123"} =>
        /\ run_calls = 0
        /\ pc # "done"

\* C6: in the merging modes to_ca_mode returns the sum of the merged
\* channels, the other channels unchanged and in order: 5 channels for
\* "1/23", 4 channels for "123".
C6_MergedChannels ==
    pc = "remap_returned" =>
        /\ ca_mode = "1/23" =>
              /\ Len(logits) = 5
              /\ logits = <<raw[1], raw[2], raw[3], raw[4] + raw[5], raw[6]>>
        /\ ca_mode = "123" =>
              /\ Len(logits) = 4
              /\ logits = <<raw[1], raw[2], raw[3] + raw[4] + raw[5], raw[6]>>

C6_Witness ==
    /\ pc = "remap_returned"
    /\ ca_mode = "1/23"
    /\ raw = <<0, 1, 2, 1, 2, 0>>
    /\ logits = <<0, 1, 2, 3, 0>>

\* C7: a call of to_ca_mode in mode "1/2/3" returns its input, and leaves
\* the input as it was.
C7_Identity ==
    [][(pc = "remap_call" /\ ca_mode = "1/2/3") =>
          /\ pc' = "remap_returned"
          /\ logits' = raw
          /\ raw' = raw]_vars

C7_Witness ==
    /\ pc = "remap_returned"
    /\ ca_mode = "1/2/3"
    /\ raw = <<0, 1, 2, 1, 2, 0>>
    /\ logits = raw

Geometric(step) == step.name # "ZNormalization"

InverseName(name) ==
    IF name = "Pad" THEN "Crop"
    ELSE IF name = "Flip" THEN "Flip"
    ELSE IF name = "Affine" THEN "InverseAffine"
    ELSE "InverseElasticDeformation"

\* C8: every volume that is put in a list of predictions has been mapped
\* back on its own: the inverses of the geometric steps of its subject were
\* applied, last step first, the normalization was not inverted, and the
\* volume has the shape of the raw scan.
C8_MappedBeforeVote ==
    \A n \in 1..Len(Entries) :
        LET e   == Entries[n]
            geo == SelectSeq(e.history, Geometric)
        IN /\ e.shape = mri_shape
           /\ Len(e.inverse) = Len(geo)
           /\ \A m \in 1..Len(geo) :
                 /\ e.inverse[Len(geo) - m + 1].name = InverseName(geo[m].name)
                 /\ e.inverse[Len(geo) - m + 1].arg = geo[m].arg

C8_Witness ==
    /\ pc = "done"
    /\ \E d \in 1..3 : mri_shape[d] % ShapeMultiple # 0
    /\ \E n \in 1..Len(soft_predictions) :
          /\ Len(soft_predictions[n].inverse) = 3
          /\ soft_predictions[n].inverse[3].name = "Crop"
          /\ soft_predictions[n].shape = mri_shape

\* C9 (as claimed): outside predict, the subject passed to segment holds the
\* images it was given and no 'label' image.
C9_PlaceholderDiscarded ==
    ("subject" \in ready /\ pc \in {"main", "loop", "predict", "done", "error"})
        => subject.images = {"mri"}

\* C10: the history of the base subject never changes, and the history of an
\* augmented subject is the base history followed by one augmentation.
C10_NoAccumulation ==
    /\ "subject" \in ready => subject.history = BaseHistory
    /\ augmented = "copy" => IsAugmentedHistory(copy.history)
    /\ \A n \in 1..Len(Entries) :
          Entries[n].aug > 0 => IsAugmentedHistory(Entries[n].history)

C10_Witness ==
    /\ pc = "predict"
    /\ i = 2
    /\ augmented = "copy"
    /\ k > Len(sessions)
    /\ Len(sessions) > 0
    /\ IsAugmentedHistory(copy.history)
    /\ "label" \in copy.images

====
